---- MODULE Spec2Model ----
(***************************************************************************)
(* Model of src/agent.py: the five-stage agent pipeline (run_agents), the  *)
(* per-run message log, the session state Streamlit keeps between script   *)
(* executions, and the task history persisted in task_history.json.        *)
(*                                                                         *)
(* Texts are sequences of tokens, so that a prefix ("Error in "), an       *)
(* escape or a truncated file is something a formula can look at.          *)
(***************************************************************************)
EXTENDS Integers, Sequences, FiniteSets, TLC

VARIABLES
    pc,               \* position of the application script (see EndStates)
    session_init,     \* 'task_history' etc. are present in st.session_state
    task_history,     \* st.session_state.task_history
    current_task_id,  \* st.session_state.current_task_id
    agent_messages,   \* st.session_state.agent_messages
    file,             \* task_history.json on disk
    task_record,      \* the local task_record of run_agents
    start_time,       \* the local start_time of run_agents
    run_state,        \* the stage the running pipeline is in (st.status label)
    request,          \* the last request sent to the provider in this execution
    responses,        \* what the provider answered to each request of this execution
    surfaced,         \* an exception escaped to the user in this script execution
    clock,            \* wall clock, in milliseconds
    uuids,            \* the uuid4 values drawn in this process, in order
    runs,             \* runs started so far, over all process lifetimes
    faults,           \* I/O failures so far (failed saves, unreadable loads)
    failed_calls      \* model calls that failed so far

vars == <<pc, session_init, task_history, current_task_id, agent_messages, file,
          task_record, start_time, run_state, request, responses, surfaced, clock,
          uuids, runs, faults, failed_calls>>

----------------------------------------------------------------------------
(* Bounds of the model.                                                    *)

MaxRuns == 2          \* runs started
MaxFaultPoints == 5   \* failures: a failed model call counts 1, an I/O failure IOCost

----------------------------------------------------------------------------
(* Texts.                                                                  *)

QUOTE == "\""
BSLASH == "\\"

None == << >>

\* As Fields, but the Planner's and the Researcher's fields are exchanged.
Fields_exchanged == <<"research", "steps", "execution", "critique", "refinement">>

\* The five stages, in the order run_agents calls them.
Roles == <<"Planner", "Researcher", "Executive", "Critic", "Refiner">>
Fields == <<"steps", "research", "execution", "critique", "refinement">>
StageStates == <<"Planning", "Research", "Execution", "Critique", "Refinement">>
NumStages == Len(Roles)

\* The task texts the user types, run after run (and then again from the first).
TaskA == <<"A">>
TaskB == <<"B", QUOTE, BSLASH>>
TaskSchedule == <<TaskA, TaskB>>
TypedTask(n) == TaskSchedule[(n % Len(TaskSchedule)) + 1]

\* uuid.uuid4() values, as their dash-separated groups (first group: 8 hex digits).
UUID4s == { <<"0a1b2c3d", "e29b">>, <<"0a1b2c3d", "41d4">>, <<"4e5f6a7b", "e29b">> }

\* Provider failures (str(e)).
Failures == {"quota exceeded"}

\* How long a model call takes, in milliseconds: a call that fails does so after
\* the provider's timeout, a call that succeeds is counted as immediate.
Latency(resp) == IF resp.ok THEN 0 ELSE 504

\* response.text of a successful call.
Generated(role) == <<role, " output: ", QUOTE, "ok", BSLASH, "n", QUOTE>>

----------------------------------------------------------------------------
(* json.dump / json.load on the documents save_history writes: an array of *)
(* objects whose values are strings or numbers.  A document is a sequence  *)
(* of tokens; a string is written between quotes, with quote and backslash *)
(* escaped by a backslash.                                                 *)

\* The keys of a task record, in the insertion order of the dict literal.
KeyOrder == <<"id", "task", "timestamp", "steps", "research", "execution",
              "critique", "refinement", "completion_time">>

\* As Round2, but of the start time minus the time now.
Round2_reversed(ms) == ((-ms) + 5) \div 10

\* round(seconds, 2), from milliseconds to hundredths of a second.
Round2(ms) == (ms + 5) \div 10

\* As Escape, but only the quote is escaped.
RECURSIVE Escape_quote_only(_)
Escape_quote_only(t) ==
    IF t = << >> THEN << >>
    ELSE (IF Head(t) = QUOTE THEN <<BSLASH, Head(t)>> ELSE <<Head(t)>>)
         \o Escape_quote_only(Tail(t))

RECURSIVE Escape(_)
Escape(t) ==
    IF t = << >> THEN << >>
    ELSE (IF Head(t) \in {QUOTE, BSLASH} THEN <<BSLASH, Head(t)>> ELSE <<Head(t)>>)
         \o Escape(Tail(t))

DumpString(t) == <<QUOTE>> \o Escape(t) \o <<QUOTE>>

Digits == <<"0", "1", "2", "3", "4", "5", "6", "7", "8", "9">>

IsDigit(t) == \E d \in 1 .. Len(Digits) : Digits[d] = t

DigitValue(t) == (CHOOSE d \in 1 .. Len(Digits) : Digits[d] = t) - 1

RECURSIVE DumpNat(_)
DumpNat(n) ==
    IF n < Len(Digits) THEN <<Digits[n + 1]>>
    ELSE DumpNat(n \div Len(Digits)) \o <<Digits[(n % Len(Digits)) + 1]>>

\* A number of hundredths, written as seconds with two decimals.
DumpNumber(n) ==
    IF n < 0 THEN <<"-">> \o DumpNat((-n) \div 100) \o <<".">>
                  \o <<Digits[(((-n) % 100) \div 10) + 1], Digits[((-n) % 10) + 1]>>
    ELSE DumpNat(n \div 100) \o <<".">>
         \o <<Digits[((n % 100) \div 10) + 1], Digits[(n % 10) + 1]>>

DumpValue(k, v) == IF k = "completion_time" THEN DumpNumber(v) ELSE DumpString(v)

RECURSIVE DumpMembers(_, _)
DumpMembers(r, i) ==
    IF i > Len(KeyOrder) THEN << >>
    ELSE (IF i > 1 THEN <<",">> ELSE << >>)
         \o DumpString(<<KeyOrder[i]>>) \o <<":">> \o DumpValue(KeyOrder[i], r[KeyOrder[i]])
         \o DumpMembers(r, i + 1)

DumpRecord(r) == <<"{">> \o DumpMembers(r, 1) \o <<"}">>

RECURSIVE DumpItems(_, _)
DumpItems(h, i) ==
    IF i > Len(h) THEN << >>
    ELSE (IF i > 1 THEN <<",">> ELSE << >>) \o DumpRecord(h[i]) \o DumpItems(h, i + 1)

\* json.dump(task_history, f): the tokens written, in order.
json_dump(h) == <<"[">> \o DumpItems(h, 1) \o <<"]">>

Bad == [ok |-> FALSE, val |-> << >>, next |-> 0]

Good(v, n) == [ok |-> TRUE, val |-> v, next |-> n]

\* s[p] is the token after the opening quote; acc is the text read so far.
RECURSIVE ParseString(_, _, _)
ParseString(s, p, acc) ==
    IF p > Len(s) THEN Bad
    ELSE IF s[p] = QUOTE THEN Good(acc, p + 1)
    ELSE IF s[p] = BSLASH
         THEN IF p + 1 > Len(s) \/ s[p + 1] \notin {QUOTE, BSLASH} THEN Bad
              ELSE ParseString(s, p + 2, Append(acc, s[p + 1]))
    ELSE ParseString(s, p + 1, Append(acc, s[p]))

\* s[p] is a token of the whole part; acc is its value so far.
RECURSIVE ParseNat(_, _, _)
ParseNat(s, p, acc) ==
    IF p > Len(s) \/ ~IsDigit(s[p]) THEN Good(acc, p)
    ELSE ParseNat(s, p + 1, acc * Len(Digits) + DigitValue(s[p]))

\* w is the whole part read; the point and two decimals follow: the value in
\* hundredths.
ParseDecimals(s, w) ==
    IF w.next + 2 > Len(s) \/ s[w.next] # "." THEN Bad
    ELSE IF ~IsDigit(s[w.next + 1]) \/ ~IsDigit(s[w.next + 2]) THEN Bad
    ELSE Good(w.val * 100 + DigitValue(s[w.next + 1]) * 10 + DigitValue(s[w.next + 2]),
              w.next + 3)

ParseUnsigned(s, p) ==
    IF p > Len(s) \/ ~IsDigit(s[p]) THEN Bad
    ELSE ParseDecimals(s, ParseNat(s, p, 0))

Negated(u) == IF u.ok THEN Good(-u.val, u.next) ELSE Bad

ParseNumber(s, p) ==
    IF s[p] = "-" THEN Negated(ParseUnsigned(s, p + 1))
    ELSE ParseUnsigned(s, p)

ParseValue(s, p) ==
    IF p > Len(s) THEN Bad
    ELSE IF s[p] = QUOTE THEN ParseString(s, p + 1, << >>)
    ELSE ParseNumber(s, p)

\* The dict of a sequence of <<key, value>> pairs; a repeated key keeps its last value.
MakeDict(pairs) ==
    [k \in {pairs[i][1] : i \in 1 .. Len(pairs)} |->
        LET last == CHOOSE i \in 1 .. Len(pairs) :
                        /\ pairs[i][1] = k
                        /\ \A j \in 1 .. Len(pairs) : pairs[j][1] = k => j <= i
        IN pairs[last][2]]

\* s[p] starts a member ("key": value) of an object; acc holds the members read so far.
RECURSIVE ParseMembers(_, _, _)

\* The members read are acc; s[q] is a comma or closes the object.
AfterMember(s, q, acc) ==
    IF s[q] = "," THEN ParseMembers(s, q + 1, acc)
    ELSE IF s[q] = "}" THEN Good(MakeDict(acc), q + 1)
    ELSE Bad

\* key and v are the key and the value read for the next member.
AfterValue(s, acc, key, v) ==
    IF ~v.ok \/ v.next > Len(s) THEN Bad
    ELSE AfterMember(s, v.next, Append(acc, <<key.val[1], v.val>>))

AfterKey(s, acc, key) ==
    IF ~key.ok \/ Len(key.val) # 1 THEN Bad
    ELSE IF key.next > Len(s) \/ s[key.next] # ":" THEN Bad
    ELSE AfterValue(s, acc, key, ParseValue(s, key.next + 1))

ParseMembers(s, p, acc) ==
    IF p > Len(s) \/ s[p] # QUOTE THEN Bad
    ELSE AfterKey(s, acc, ParseString(s, p + 1, << >>))

ParseObject(s, p) ==
    IF p + 1 > Len(s) \/ s[p] # "{" THEN Bad
    ELSE IF s[p + 1] = "}" THEN Good(<< >>, p + 2)
    ELSE ParseMembers(s, p + 1, << >>)

\* s[p] starts an item of the array; acc holds the items read so far.
RECURSIVE ParseItems(_, _, _)

\* o is the object read for the next item.
AfterItem(s, acc, o) ==
    IF ~o.ok \/ o.next > Len(s) THEN Bad
    ELSE IF s[o.next] = "," THEN ParseItems(s, o.next + 1, Append(acc, o.val))
    ELSE IF s[o.next] = "]" THEN Good(Append(acc, o.val), o.next + 1)
    ELSE Bad

ParseItems(s, p, acc) == AfterItem(s, acc, ParseObject(s, p))

\* The array read must be the whole document.
WholeDocument(s, a) == IF a.ok /\ a.next = Len(s) + 1 THEN a ELSE Bad

\* json.load(f): ok is FALSE where json.load raises (empty, truncated or trailing data).
json_load(s) ==
    IF Len(s) < 2 \/ s[1] # "[" THEN Bad
    ELSE WholeDocument(s, IF s[2] = "]" THEN Good(<< >>, 3) ELSE ParseItems(s, 2, << >>))

----------------------------------------------------------------------------
(* The history file.                                                       *)

NoFile == [exists |-> FALSE, content |-> << >>]

\* How a save can end: written in full, open() refused, or the write failing after
\* open(..., 'w') truncated the file (nothing flushed, or all but the last token).
SaveOutcomes == {"ok", "open fails", "write fails at once", "write fails late"}

\* As save_history, but a failure to open the file is swallowed.
save_history_swallow(h, f, io) ==
    IF io = "open fails" THEN [raised |-> FALSE, file |-> f]
    ELSE [raised |-> io # "ok",
          file |-> [exists |-> TRUE,
                    content |-> CASE io = "ok" -> json_dump(h)
                                  [] io = "write fails at once" -> << >>
                                  [] OTHER -> SubSeq(json_dump(h), 1, Len(json_dump(h)) - 1)]]

\* As save_history, but an empty history is not written.
save_history_skip_empty(h, f, io) ==
    IF io = "ok"
    THEN [raised |-> FALSE,
          file |-> IF h = << >> THEN f ELSE [exists |-> TRUE, content |-> json_dump(h)]]
    ELSE [raised |-> TRUE,
          file |-> IF io = "open fails" THEN f ELSE [exists |-> TRUE, content |-> << >>]]

\* save_history(): the file afterwards, and whether the call raised.
save_history(h, f, io) ==
    LET doc == json_dump(h) IN
    CASE io = "ok" -> [raised |-> FALSE, file |-> [exists |-> TRUE, content |-> doc]]
      [] io = "open fails" -> [raised |-> TRUE, file |-> f]
      [] io = "write fails at once" ->
            [raised |-> TRUE, file |-> [exists |-> TRUE, content |-> << >>]]
      [] io = "write fails late" ->
            [raised |-> TRUE,
             file |-> [exists |-> TRUE, content |-> SubSeq(doc, 1, Len(doc) - 1)]]

\* As AddAndSave, but the new record is put in front.
AddAndSave_front(h, rec, f, io) ==
    LET h2 == <<rec>> \o h
        s == save_history(h2, f, io)
    IN [history |-> h2, file |-> s.file, raised |-> s.raised]

\* As AddAndSave, but a failed save takes the record out of the history again.
AddAndSave_rollback(h, rec, f, io) ==
    LET h2 == Append(h, rec)
        s == save_history(h2, f, io)
    IN [history |-> IF s.raised THEN h ELSE h2, file |-> s.file, raised |-> s.raised]

\* "Add to history" and save_history(): the history and the file afterwards, and
\* whether the save raised.
AddAndSave(h, rec, f, io) ==
    LET h2 == Append(h, rec)
        s == save_history(h2, f, io)
    IN [history |-> h2, file |-> s.file, raised |-> s.raised]

\* load_history(): the session's task_history afterwards, and whether the call raised.
\* readable is FALSE when open() for reading fails.
load_history(h, f, readable) ==
    IF ~f.exists THEN [raised |-> FALSE, history |-> h]
    ELSE IF ~readable THEN [raised |-> TRUE, history |-> h]
    ELSE LET doc == json_load(f.content) IN
         IF doc.ok THEN [raised |-> FALSE, history |-> doc.val]
         ELSE [raised |-> TRUE, history |-> h]

\* As StartupLoad, without the try / except.
StartupLoad_propagate(h, f, readable) == load_history(h, f, readable)

\* "Load history at startup": try load_history(), and on any exception an empty history.
StartupLoad(h, f, readable) ==
    LET l == load_history(h, f, readable) IN
    IF l.raised THEN [raised |-> FALSE, history |-> << >>]
    ELSE [raised |-> FALSE, history |-> l.history]

----------------------------------------------------------------------------
(* Agents.                                                                 *)

NoRequest == [role |-> "", prompt |-> << >>]

NoRecord == << >>

\* What the provider answers: a text, or a failure.
Responses(role) ==
    {[ok |-> TRUE, text |-> Generated(role)]}
    \cup {[ok |-> FALSE, text |-> <<e>>] : e \in Failures}

\* As generate_response, but a failed call yields an empty text.
generate_response_empty(role, resp) == IF resp.ok THEN resp.text ELSE << >>

\* Agent.generate_response: the text, or the fallback text of the except branch.
generate_response(role, resp) ==
    IF resp.ok THEN resp.text
    ELSE <<"Error in ", role, " agent: ">> \o resp.text

\* As StagePrompt, but the Refiner is not shown a critique that is an error text.
StagePrompt_no_failed_critique(i, rec) ==
    CASE i = 1 -> <<"As a Task Planning Agent", "Task: ">> \o rec.task
      [] i = 2 -> <<"As a Research Agent", "Task: ">> \o rec.task
                  \o <<"Steps: ">> \o rec.steps
      [] i = 3 -> <<"As an Executive Agent", "Task: ">> \o rec.task
                  \o <<"Steps: ">> \o rec.steps \o <<"Research: ">> \o rec.research
      [] i = 4 -> <<"As a Critic Agent", "Task: ">> \o rec.task
                  \o <<"Steps: ">> \o rec.steps \o <<"Research: ">> \o rec.research
                  \o <<"Execution: ">> \o rec.execution
      [] i = 5 -> <<"As a Refiner Agent", "Task: ">> \o rec.task
                  \o <<"Current Solution: ">> \o rec.execution
                  \o <<"Critique: ">>
                  \o (IF Head(rec.critique) = "Error in " THEN << >> ELSE rec.critique)

\* As StagePrompt, but the Refiner is given the steps and the research as well.
StagePrompt_refiner_reads_all(i, rec) ==
    CASE i = 1 -> <<"As a Task Planning Agent", "Task: ">> \o rec.task
      [] i = 2 -> <<"As a Research Agent", "Task: ">> \o rec.task
                  \o <<"Steps: ">> \o rec.steps
      [] i = 3 -> <<"As an Executive Agent", "Task: ">> \o rec.task
                  \o <<"Steps: ">> \o rec.steps \o <<"Research: ">> \o rec.research
      [] i = 4 -> <<"As a Critic Agent", "Task: ">> \o rec.task
                  \o <<"Steps: ">> \o rec.steps \o <<"Research: ">> \o rec.research
                  \o <<"Execution: ">> \o rec.execution
      [] i = 5 -> <<"As a Refiner Agent", "Task: ">> \o rec.task
                  \o <<"Steps: ">> \o rec.steps \o <<"Research: ">> \o rec.research
                  \o <<"Current Solution: ">> \o rec.execution
                  \o <<"Critique: ">> \o rec.critique

\* The prompts of plan_task, gather_information, execute_task, evaluate_solution
\* and refine_solution.
StagePrompt(i, rec) ==
    CASE i = 1 -> <<"As a Task Planning Agent", "Task: ">> \o rec.task
      [] i = 2 -> <<"As a Research Agent", "Task: ">> \o rec.task
                  \o <<"Steps: ">> \o rec.steps
      [] i = 3 -> <<"As an Executive Agent", "Task: ">> \o rec.task
                  \o <<"Steps: ">> \o rec.steps \o <<"Research: ">> \o rec.research
      [] i = 4 -> <<"As a Critic Agent", "Task: ">> \o rec.task
                  \o <<"Steps: ">> \o rec.steps \o <<"Research: ">> \o rec.research
                  \o <<"Execution: ">> \o rec.execution
      [] i = 5 -> <<"As a Refiner Agent", "Task: ">> \o rec.task
                  \o <<"Current Solution: ">> \o rec.execution
                  \o <<"Critique: ">> \o rec.critique

\* The sentence each agent puts before its output in the message log.
Narration(i) ==
    CASE i = 1 -> <<"I've broken down the task into these steps:">>
      [] i = 2 -> <<"I've gathered this relevant information:">>
      [] i = 3 -> <<"I've executed the task. Here's the result:">>
      [] i = 4 -> <<"Here's my evaluation of the solution:">>
      [] i = 5 -> <<"I've refined the solution:">>

\* strftime("%H:%M:%S") and strftime("%Y-%m-%d %H:%M:%S"): whole seconds.
ClockTime(ms) == <<ToString(ms \div 1000)>>
DateTime(ms) == <<"2026-11-01 ">> \o ClockTime(ms)

\* As log_agent_message, but an agent whose call failed logs nothing.
log_agent_message_ok_only(log, agent_name, message, now) ==
    IF \E k \in 1 .. Len(message) : message[k] = "Error in " THEN log
    ELSE Append(log, [agent |-> agent_name, message |-> message,
                      timestamp |-> ClockTime(now)])

\* log_agent_message: the message log with one more entry.
log_agent_message(log, agent_name, message, now) ==
    Append(log, [agent |-> agent_name, message |-> message, timestamp |-> ClockTime(now)])

\* generate_task_id: the first 8 characters of str(uuid4), its first group.
generate_task_id(u) == <<Head(u)>>

\* The dict literal of run_agents.
NewTaskRecord(task_id, task, now) ==
    [id |-> task_id, task |-> task, timestamp |-> DateTime(now),
     steps |-> << >>, research |-> << >>, execution |-> << >>,
     critique |-> << >>, refinement |-> << >>, completion_time |-> 0]

----------------------------------------------------------------------------
(* The application script.  Streamlit executes it from the top on every    *)
(* interaction; st.session_state survives from one execution to the next.  *)

\* Where an execution of the script ends (or, for "start", has not begun).
EndStates == {"start", "rendered", "run_returned", "run_raised",
              "clear_returned", "clear_raised"}

\* The history buttons of the sidebar: the last RecentShown records, newest first.
RecentShown == 5

Recent(h) ==
    LET n == IF Len(h) < RecentShown THEN Len(h) ELSE RecentShown IN
    [i \in 1 .. n |-> h[Len(h) + 1 - i]]

Range(f) == {f[x] : x \in DOMAIN f}

\* An I/O failure (a failed save, an unreadable file) weighs as much as the failure
\* of all stages but one.
IOCost == NumStages - 1

FaultPoints == failed_calls + IOCost * faults

CallCanFail == FaultPoints + 1 <= MaxFaultPoints

IOCanFail == FaultPoints + IOCost <= MaxFaultPoints

Init ==
    /\ pc = "start"
    /\ session_init = FALSE
    /\ task_history = << >>
    /\ current_task_id = None
    /\ agent_messages = << >>
    /\ file = NoFile
    /\ task_record = NoRecord
    /\ start_time = 0
    /\ run_state = "None"
    /\ request = NoRequest
    /\ responses = << >>
    /\ surfaced = FALSE
    /\ clock = 0
    /\ uuids = << >>
    /\ runs = 0
    /\ faults = 0
    /\ failed_calls = 0

\* The top of the script: session state initialisation and the startup load.
Boot ==
    /\ pc \in EndStates
    /\ \E readable \in BOOLEAN :
          /\ readable \/ (file.exists /\ IOCanFail)
          /\ LET h0 == IF session_init THEN task_history ELSE << >>
                 l == StartupLoad(h0, file, readable)
             IN /\ task_history' = l.history
                /\ surfaced' = l.raised
          /\ faults' = IF readable THEN faults ELSE faults + 1
    /\ session_init' = TRUE
    /\ current_task_id' = IF session_init THEN current_task_id ELSE None
    /\ agent_messages' = IF session_init THEN agent_messages ELSE << >>
    /\ task_record' = NoRecord
    /\ start_time' = 0
    /\ run_state' = "None"
    /\ request' = NoRequest
    /\ responses' = << >>
    /\ pc' = "script"
    /\ UNCHANGED <<file, clock, uuids, runs, failed_calls>>

\* An execution in which no button was pressed, or "Run AI Agents" with nothing
\* typed (a warning is shown): the page is drawn.
Render ==
    /\ pc = "script"
    /\ pc' = "rendered"
    /\ UNCHANGED <<session_init, task_history, current_task_id, agent_messages, file,
                   task_record, start_time, run_state, request, responses, surfaced,
                   clock, uuids, runs, faults, failed_calls>>

\* sidebar_ui: the i-th history button was pressed.
SelectHistory ==
    /\ pc = "script"
    /\ \E i \in DOMAIN Recent(task_history) :
          current_task_id' = Recent(task_history)[i].id
    /\ pc' = "rendered"
    /\ UNCHANGED <<session_init, task_history, agent_messages, file, task_record,
                   start_time, run_state, request, responses, surfaced, clock, uuids,
                   runs, faults, failed_calls>>

\* sidebar_ui: "Clear History" was pressed.
ClearHistory ==
    /\ pc = "script"
    /\ \E io \in SaveOutcomes :
          /\ io = "ok" \/ IOCanFail
          /\ LET s == save_history(<< >>, file, io) IN
                /\ file' = s.file
                /\ surfaced' = s.raised
                /\ pc' = IF s.raised THEN "clear_raised" ELSE "clear_returned"
          /\ faults' = IF io = "ok" THEN faults ELSE faults + 1
    /\ task_history' = << >>
    /\ UNCHANGED <<session_init, current_task_id, agent_messages, task_record,
                   start_time, run_state, request, responses, clock, uuids, runs,
                   failed_calls>>

\* main_area: "Run AI Agents" was pressed; run_agents up to the status box.
RunStart ==
    /\ pc = "script"
    /\ runs < MaxRuns
    /\ runs' = runs + 1
    /\ \E u \in UUID4s \ Range(uuids) :
          LET task_id == generate_task_id(u)
              task == TypedTask(runs)
          IN
          /\ uuids' = Append(uuids, u)
          /\ current_task_id' = task_id
          /\ task_record' = NewTaskRecord(task_id, task, clock)
    /\ agent_messages' = << >>
    /\ start_time' = clock
    /\ run_state' = "Created"
    /\ pc' = "run"
    /\ UNCHANGED <<session_init, task_history, file, request, responses, surfaced,
                   clock, faults, failed_calls>>

\* As Before, but the Researcher does not wait for the Planner.
Before_skips(i) == IF i <= 2 THEN "Created" ELSE StageStates[i - 1]

\* The state a stage starts from.
Before(i) == IF i = 1 THEN "Created" ELSE StageStates[i - 1]

\* Stage i: the status label changes, the agent sends its prompt, the provider
\* answers or fails, the agent logs its message and run_agents stores the text in
\* the stage's field.
Stage(i) ==
    /\ pc = "run"
    /\ run_state = Before(i)
    /\ run_state' = StageStates[i]
    /\ request' = [role |-> Roles[i], prompt |-> StagePrompt(i, task_record)]
    /\ \E resp \in Responses(Roles[i]) :
          /\ resp.ok \/ CallCanFail
          /\ LET text == generate_response(Roles[i], resp)
                 now == clock + Latency(resp)
             IN /\ clock' = now
                /\ responses' = Append(responses, resp)
                /\ agent_messages' =
                      log_agent_message(agent_messages, Roles[i], Narration(i) \o text, now)
                /\ task_record' = [task_record EXCEPT ![Fields[i]] = text]
          /\ failed_calls' = IF resp.ok THEN failed_calls ELSE failed_calls + 1
    /\ UNCHANGED <<pc, session_init, task_history, current_task_id, file, start_time,
                   surfaced, uuids, runs, faults>>

\* As Finish, but the run may also be completed after the Critic, without the Refiner.
Finish_early ==
    /\ pc = "run"
    /\ run_state \in {StageStates[NumStages - 1], StageStates[NumStages]}
    /\ run_state' = "Complete"
    /\ task_record' = [task_record EXCEPT !.completion_time = Round2(clock - start_time)]
    /\ UNCHANGED <<pc, session_init, task_history, current_task_id, agent_messages,
                   file, start_time, request, responses, surfaced, clock, uuids, runs,
                   faults, failed_calls>>

\* "Task completed!" and the completion time.
Finish ==
    /\ pc = "run"
    /\ run_state = StageStates[NumStages]
    /\ run_state' = "Complete"
    /\ task_record' = [task_record EXCEPT !.completion_time = Round2(clock - start_time)]
    /\ UNCHANGED <<pc, session_init, task_history, current_task_id, agent_messages,
                   file, start_time, request, responses, surfaced, clock, uuids, runs,
                   faults, failed_calls>>

\* "Add to history", save_history() and the return (or the exception of the save).
AppendAndSave ==
    /\ pc = "run"
    /\ run_state = "Complete"
    /\ \E io \in SaveOutcomes :
          /\ io = "ok" \/ IOCanFail
          /\ LET s == AddAndSave(task_history, task_record, file, io) IN
                /\ task_history' = s.history
                /\ file' = s.file
                /\ surfaced' = s.raised
                /\ pc' = IF s.raised THEN "run_raised" ELSE "run_returned"
          /\ faults' = IF io = "ok" THEN faults ELSE faults + 1
    /\ UNCHANGED <<session_init, current_task_id, agent_messages, task_record,
                   start_time, run_state, request, responses, clock, uuids, runs,
                   failed_calls>>

\* The process is stopped and started again, after at least one run: session state
\* is gone, the file stays.
Restart ==
    /\ pc \in EndStates \ {"start"}
    /\ uuids # << >>
    /\ pc' = "start"
    /\ session_init' = FALSE
    /\ task_history' = << >>
    /\ current_task_id' = None
    /\ agent_messages' = << >>
    /\ task_record' = NoRecord
    /\ start_time' = 0
    /\ run_state' = "None"
    /\ request' = NoRequest
    /\ responses' = << >>
    /\ surfaced' = FALSE
    /\ uuids' = << >>
    /\ UNCHANGED <<file, clock, runs, faults, failed_calls>>

RunStep ==
    \/ \E i \in 1 .. NumStages : Stage(i)
    \/ Finish
    \/ AppendAndSave

Next ==
    \/ Boot
    \/ Render
    \/ SelectHistory
    \/ ClearHistory
    \/ RunStart
    \/ RunStep
    \/ Restart

Spec == Init /\ [][Next]_vars

\* The script runs to its end: no call of run_agents waits for ever.
FairSpec == Spec /\ WF_vars(RunStep)

----------------------------------------------------------------------------
(* Properties.                                                             *)

FieldOf(rec, i) == rec[Fields[i]]

\* The provider failed in stage i of the run in progress.
Failed(i) == i <= Len(responses) /\ ~responses[i].ok

\* C1: when run_agents returns, the message log holds exactly five entries, by
\* Planner, Researcher, Executive, Critic and Refiner in this order, and each
\* is the narration of this run's output of that stage (nothing of an earlier
\* run is left), whichever calls failed and however many runs came before.
C1_LogOfTheRun ==
    pc = "run_returned" =>
        /\ Len(agent_messages) = NumStages
        /\ \A i \in 1 .. NumStages :
              /\ agent_messages[i].agent = Roles[i]
              /\ agent_messages[i].message = Narration(i) \o FieldOf(task_record, i)

C1_Witness ==
    /\ pc = "run_returned"
    /\ runs = 2
    /\ Len(task_history) = 2
    /\ Failed(1)
    /\ ~Failed(2)

\* C2: whichever stages' calls fail, the stages raise nothing: an exception leaves
\* the script only from a failed save; and whenever run_agents is left, all five
\* stages have run and all five text fields are populated, the field of every
\* failed stage beginning with "Error in ".
C2_FailSoft ==
    /\ pc = "run" => ~surfaced
    /\ surfaced => pc \in {"run_raised", "clear_raised"}
    /\ pc \in {"run_returned", "run_raised"} =>
          /\ run_state = "Complete"
          /\ Len(responses) = NumStages
          /\ \A i \in 1 .. NumStages :
                /\ FieldOf(task_record, i) # << >>
                /\ Failed(i) => Head(FieldOf(task_record, i)) = "Error in "

C2_Witness ==
    /\ pc = "run_returned"
    /\ \A i \in 1 .. NumStages : Failed(i)

\* The order of the run states.
RunOrder == <<"None", "Created">> \o StageStates \o <<"Complete", "None">>

\* C3: the run states follow one another in the one order Created, Planning,
\* Research, Execution, Critique, Refinement, Complete; every provider call moves
\* the run one state on (no stage is skipped or repeated, a failure leads to no
\* other state); and a run that has started reaches Complete.
C3_LinearRun ==
    /\ [][run_state' # run_state =>
            \E k \in 1 .. Len(RunOrder) - 1 :
                run_state = RunOrder[k] /\ run_state' = RunOrder[k + 1]]_vars
    /\ [][responses' # responses /\ responses' # << >> => run_state' # run_state]_vars
    /\ ((run_state = "Created") ~> (run_state = "Complete"))

C3_Witness ==
    /\ run_state = "Complete"
    /\ pc = "run"
    /\ Failed(3)
    /\ Failed(5)

C5_Persisted ==
    pc \in {"run_returned", "clear_returned"} =>
        /\ file.exists
        /\ file.content = json_dump(task_history)

C5_Witness ==
    /\ pc = "run_returned"
    /\ Len(task_history) = 2
    /\ file.content = json_dump(task_history)

\* C6: when the save of a run fails, the exception reaches the caller of
\* run_agents, and the in-memory History ends with the new record although the
\* file does not hold it.
C6_SaveFailure ==
    pc = "run_raised" =>
        /\ surfaced
        /\ task_history # << >>
        /\ task_history[Len(task_history)] = task_record
        /\ ~(file.exists /\ file.content = json_dump(task_history))

C6_Witness ==
    /\ pc = "run_raised"
    /\ Len(task_history) = 2
    /\ file.exists
    /\ json_load(file.content).ok

\* The file cannot be loaded: it is missing or its content is no JSON document.
Unloadable(f) == ~f.exists \/ ~json_load(f.content).ok

\* C7: the load at process start, with the history file missing, unreadable or
\* malformed, leaves the in-memory History empty and surfaces no error.
C7_StartupLoad ==
    [][(pc = "start" /\ pc' = "script" /\ (Unloadable(file) \/ faults' # faults))
          => (task_history' = << >> /\ ~surfaced')]_vars

C7_Witness ==
    /\ pc = "script"
    /\ uuids = << >>
    /\ runs > 0
    /\ file.exists
    /\ file.content # << >>
    /\ ~json_load(file.content).ok
    /\ task_history = << >>
    /\ ~surfaced

\* C8: saving a non-empty History and loading the file into a fresh session
\* gives back the same History, field for field and in the same order.
C8_RoundTrip ==
    task_history # << >> =>
        LET saved == save_history(task_history, NoFile, "ok")
            loaded == load_history(<< >>, saved.file, TRUE)
        IN /\ ~saved.raised
           /\ ~loaded.raised
           /\ loaded.history = task_history

C8_Witness ==
    /\ pc = "script"
    /\ uuids = << >>
    /\ Len(task_history) = 2
    /\ task_history[2].task = TaskB
    /\ task_history[1].completion_time > 0

\* C9: when Clear History has returned, History is empty, the file holds the empty
\* collection, and a load returns an empty collection.
C9_ClearThenLoad ==
    pc = "clear_returned" =>
        /\ task_history = << >>
        /\ file.exists
        /\ load_history(task_history, file, TRUE) = [raised |-> FALSE, history |-> << >>]

C9_Witness ==
    /\ pc = "clear_returned"
    /\ Len(uuids) = 2
    /\ faults = 0
    /\ file.content = json_dump(<< >>)

\* C10: the ids generated in one process lifetime are pairwise distinct.
C10_IdsDistinct ==
    \A i, j \in 1 .. Len(uuids) :
        i # j => generate_task_id(uuids[i]) # generate_task_id(uuids[j])


\* The provider failed in the Critic stage of the run in progress and in no other.
OnlyCriticFailed ==
    /\ Len(responses) = NumStages
    /\ \A i \in 1 .. NumStages : Failed(i) <=> Roles[i] = "Critic"

\* The last n tokens of a text.
Last(t, n) == SubSeq(t, Len(t) - n + 1, Len(t))

\* C11: when the model call fails for the Critic stage only, the critique field is
\* "Error in Critic agent: " followed by the failure's text, the Refiner still
\* runs, the critique input of its prompt is exactly that text, its refinement is
\* produced, and run_agents returns normally (no save having failed).
C11_CriticFailure ==
    OnlyCriticFailed =>
        /\ SubSeq(task_record.critique, 1, 3) = <<"Error in ", "Critic", " agent: ">>
        /\ task_record.critique = <<"Error in ", "Critic", " agent: ">> \o responses[4].text
        /\ request.role = "Refiner"
        /\ Last(request.prompt, Len(task_record.critique) + 1)
              = <<"Critique: ">> \o task_record.critique
        /\ task_record.refinement = responses[5].text
        /\ task_record.refinement # << >>
        /\ pc \in {"run", "run_returned", "run_raised"}
        /\ faults = 0 => pc \in {"run", "run_returned"}

C11_Witness ==
    /\ OnlyCriticFailed
    /\ pc = "run_returned"
    /\ Len(task_history) = 2
    /\ task_history[2].critique = <<"Error in ", "Critic", " agent: ", "quota exceeded">>


\* C12: once the process has started, the top of a later execution of the script
\* leaves the in-memory History as the session holds it (the file is not loaded
\* over it again).
C12_LoadedOnce ==
    [][(pc \in EndStates \ {"start"} /\ pc' = "script")
          => task_history' = task_history]_vars

\* The stages whose outputs stage i is given: plan_task(task),
\* gather_information(task, steps), execute_task(task, steps, research),
\* evaluate_solution(task, steps, research, execution) and
\* refine_solution(task, execution, critique).
DeclaredInputs(i) ==
    CASE i = 1 -> {}
      [] i = 2 -> {1}
      [] i = 3 -> {1, 2}
      [] i = 4 -> {1, 2, 3}
      [] i = 5 -> {3, 4}

StageOf(role) == CHOOSE i \in 1 .. NumStages : Roles[i] = role

\* Text t stands in prompt p, token for token.
Contains(p, t) ==
    \E k \in 0 .. Len(p) - Len(t) : SubSeq(p, k + 1, k + Len(t)) = t

\* An output of the agent of this role (its text or its error text) names the role.
Mentions(p, role) == \E k \in 1 .. Len(p) : p[k] = role

\* C13: the prompt a stage sends holds the task and, whole, the field of every
\* stage it is declared to read, each of them an earlier stage whose field is
\* populated; and it holds no output of any other stage (its own or a later one).
C13_DeclaredInputs ==
    request # NoRequest =>
        LET i == StageOf(request.role) IN
        /\ Contains(request.prompt, <<"Task: ">> \o task_record.task)
        /\ \A j \in 1 .. NumStages :
              IF j \in DeclaredInputs(i)
              THEN /\ j < i
                   /\ FieldOf(task_record, j) # << >>
                   /\ Contains(request.prompt, FieldOf(task_record, j))
              ELSE ~Mentions(request.prompt, Roles[j])

C13_Witness ==
    /\ pc = "run_returned"
    /\ request.role = "Refiner"
    /\ Failed(1)
    /\ Failed(3)
    /\ task_record.task = TaskB


\* The five text fields of a record, in stage order.
TextFields(rec) == <<rec.steps, rec.research, rec.execution, rec.critique, rec.refinement>>

\* C14: at every point of a run the populated text fields are the first ones in
\* the order steps, research, execution, critique, refinement; a populated field
\* is never written again; a field is written only by the step of its own stage;
\* and the task field stays as it was.
C14_WriteOnce ==
    /\ [](task_record # NoRecord =>
            \A i \in 1 .. NumStages - 1 :
                TextFields(task_record)[i + 1] # << >> => TextFields(task_record)[i] # << >>)
    /\ [][(task_record # NoRecord /\ task_record' # NoRecord) =>
            /\ task_record'.task = task_record.task
            /\ \A i \in 1 .. NumStages :
                  /\ TextFields(task_record)[i] # << >> =>
                        TextFields(task_record')[i] = TextFields(task_record)[i]
                  /\ TextFields(task_record')[i] # TextFields(task_record)[i] =>
                        (run_state = Before(i) /\ run_state' = StageStates[i])]_vars

C14_Witness ==
    /\ pc = "run"
    /\ runs = 2
    /\ run_state = "Execution"
    /\ task_record.task = TaskB
    /\ task_record.execution # << >>
    /\ task_record.critique = << >>

\* All five text fields of the record are populated.
Completed(rec) == \A i \in 1 .. NumStages : TextFields(rec)[i] # << >>

\* C15: every record of the in-memory History, and every record of a history file
\* that can be loaded, has all five text fields populated; and a run appends its
\* record only when all five stages have written their fields and the completion
\* time has been set.
C15_OnlyCompleted ==
    /\ [](\A k \in 1 .. Len(task_history) : Completed(task_history[k]))
    /\ []((file.exists /\ json_load(file.content).ok) =>
            \A k \in 1 .. Len(json_load(file.content).val) :
                Completed(json_load(file.content).val[k]))
    /\ [][(pc = "run" /\ task_history' # task_history) =>
            /\ run_state = "Complete"
            /\ Len(responses) = NumStages
            /\ Completed(task_record)
            /\ task_history'[Len(task_history')] = task_record]_vars

C15_Witness ==
    /\ pc = "run_raised"
    /\ Len(task_history) = 2
    /\ Failed(NumStages)
    /\ file.exists
    /\ Len(json_load(file.content).val) = 1

\* C16: the completion time is written by the step that follows the Refiner and by
\* no other, before the record is appended; it is the time elapsed since the start
\* of the run, never negative, and it is recorded (and covers the time the failed
\* calls took) when stages failed.
C16_CompletionTime ==
    /\ [](task_record # NoRecord => task_record.completion_time >= 0)
    /\ [](\A k \in 1 .. Len(task_history) : task_history[k].completion_time >= 0)
    /\ []((task_record # NoRecord /\ run_state # "Complete") =>
            task_record.completion_time = 0)
    /\ []((pc \in {"run_returned", "run_raised"}) =>
            /\ task_record.completion_time = Round2(clock - start_time)
            /\ \A i \in 1 .. NumStages :
                  Failed(i) => /\ task_record.completion_time > 0
                               /\ task_record.completion_time >= Round2(Latency(responses[i])))
    /\ [][(task_record # NoRecord /\ task_record' # NoRecord
           /\ task_record'.completion_time # task_record.completion_time) =>
            (run_state = StageStates[NumStages] /\ run_state' = "Complete")]_vars
    /\ [][(pc = "run" /\ task_history' # task_history) =>
            /\ run_state = "Complete"
            /\ task_history'[Len(task_history')].completion_time
                  = Round2(clock - start_time)]_vars

C16_Witness ==
    /\ pc = "run_returned"
    /\ Failed(2)
    /\ Failed(NumStages)
    /\ task_record.completion_time = Round2(2 * 504)
    /\ task_history[Len(task_history)].completion_time = task_record.completion_time


\* display_results: the position in History of the first record with this id (0: none).
Lookup(h, id) ==
    IF \E k \in 1 .. Len(h) : h[k].id = id
    THEN CHOOSE k \in 1 .. Len(h) :
            /\ h[k].id = id
            /\ \A j \in 1 .. k - 1 : h[j].id # id
    ELSE 0

\* C17: when run_agents has returned, current_task_id is the id of the returned
\* record, and the first record of History with that id is the record just appended.
C17_LookupFindsNew ==
    pc = "run_returned" =>
        /\ current_task_id = task_record.id
        /\ Lookup(task_history, current_task_id) = Len(task_history)
        /\ task_history[Lookup(task_history, current_task_id)] = task_record

\* C18: whenever the page is drawn with a record selected through current_task_id
\* and a non-empty message log, the log is the one of the run that made the
\* selected record: its entries narrate that record's fields.  (Stated for
\* Histories whose ids are pairwise distinct, where the selection is unambiguous.)
C18_LogOfSelected ==
    (/\ pc \in {"rendered", "run_returned"}
     /\ \A j, k \in 1 .. Len(task_history) :
           j # k => task_history[j].id # task_history[k].id
     /\ current_task_id # None
     /\ Lookup(task_history, current_task_id) # 0
     /\ agent_messages # << >>) =>
        LET selected == task_history[Lookup(task_history, current_task_id)] IN
        /\ Len(agent_messages) = NumStages
        /\ \A i \in 1 .. NumStages :
              agent_messages[i].message = Narration(i) \o TextFields(selected)[i]

\* C19: a save that fails leaves the history file as it was: the startup load that
\* follows yields the collection it would have yielded before the save.  (Stated
\* for the save at the end of a run.)
C19_FailedSaveKeepsFile ==
    [][(pc = "run" /\ pc' = "run_raised")
          => StartupLoad(<< >>, file', TRUE) = StartupLoad(<< >>, file, TRUE)]_vars

====
